---- MODULE Spec2Model ----
(***************************************************************************)
(* Model of scrape.py (Indeed Helpdesk Scraper): main() loads              *)
(* countries.yml and, for each configured country, builds the search       *)
(* query, fetches the result page (get_data), extracts the job postings    *)
(* (scrape_html) and posts one embed per posting to the country's webhook  *)
(* (publish_to_discord).                                                   *)
(*                                                                         *)
(* The network is the environment: each requests.get and requests.post     *)
(* either returns a response or raises.  A parsed page is the sequence, in *)
(* document order, of the elements carrying class "tapItem"; each element  *)
(* is a record of the sub-elements scrape_html looks up in it.  Strings    *)
(* are strings and are concatenated as the f-strings concatenate them.     *)
(***************************************************************************)
EXTENDS Integers, Sequences, FiniteSets, TLC

VARIABLES
    countries_file, \* countries.yml: whether it exists and what it holds
    countries,      \* main: the loaded configuration
    pc,             \* main: position of the process
    idx,            \* main: 1-based index of the country being processed
    query,          \* main: query string of the current country
    raw_content,    \* main: page returned by get_data
    postings,       \* main: list returned by scrape_html
    pidx,           \* publish_to_discord: 1-based index of the next posting
    log,            \* network calls and scrape_html calls made so far, in order
    stdout,         \* what print() wrote so far
    err,            \* the exception that ended the run, "none" otherwise
    exit_status     \* process exit status, -1 while running

vars == << countries_file, countries, pc, idx, query, raw_content, postings,
           pidx, log, stdout, err, exit_status >>

-----------------------------------------------------------------------------
(* Bounds *)

MaxTargets == 2   \* entries of countries.yml
MaxCards == 2     \* tapItem elements of one page

-----------------------------------------------------------------------------
(* Python's None, for a lookup that found nothing *)
None == "<None>"

SeqsUpTo(S, n) == UNION { [1..k -> S] : k \in 0..n }

-----------------------------------------------------------------------------
(* Query construction, main lines 125-137 *)

RECURSIVE SearchQueryFrom(_, _, _)
SearchQueryFrom(search_keys, i, search_query) ==
    IF i > Len(search_keys) THEN search_query
    ELSE IF i < Len(search_keys)
         THEN SearchQueryFrom(search_keys, i + 1,
                  search_query \o "%22" \o search_keys[i] \o "%22%20OR")
         ELSE SearchQueryFrom(search_keys, i + 1,
                  search_query \o "%22" \o search_keys[i] \o "%22&")

Query(search_keys) ==
    SearchQueryFrom(search_keys, 1, "")
        \o "explvl=entry_level&" \o "fromage=1&" \o "jt=fulltime&" \o "limit=50"

(* str.lower() on the country codes of the configurations below *)
Lower(s) ==
    CASE s = "US" -> "us"
      [] s = "Us" -> "us"
      [] OTHER -> s

(* get_data lines 27-30 *)
Url(q, country) ==
    IF Lower(country) = "us"
    THEN "https://www.indeed.com/jobs?q=" \o q
    ELSE "https://" \o country \o ".indeed.com/jobs?q=" \o q

-----------------------------------------------------------------------------
(* scrape_html *)

(* soup.find in place of soup.findAll: only the first card is kept *)
FindAllCardsFirstOnly(html_content) ==
    LET divs == SelectSeq(html_content, LAMBDA e : e.root = "div")
    IN  IF divs = << >> THEN << >> ELSE << Head(divs) >>

(* soup.findAll('div', class_='tapItem'): the div elements among the       *)
(* elements carrying the class, in document order                          *)
FindAllCards(html_content) ==
    SelectSeq(html_content, LAMBDA e : e.root = "div")

(* company and location read with a soft default: their absence raises    *)
(* nothing                                                                 *)
CardErrorSoftDefault(job) ==
    IF ~job.resultContent THEN "AttributeError"
    ELSE IF ~job.jobTitle THEN "AttributeError"
    ELSE IF job.data_jk = None THEN "KeyError"
    ELSE IF Len(job.spans) = 0 THEN "IndexError"
    ELSE IF job.spans[1] = "new" /\ Len(job.spans) < 2 THEN "IndexError"
    ELSE "none"

(* job_metadata.text read without the None test of line 79 *)
CardErrorMetadataRequired(job) ==
    IF ~job.resultContent THEN "AttributeError"
    ELSE IF ~job.jobTitle THEN "AttributeError"
    ELSE IF job.data_jk = None THEN "KeyError"
    ELSE IF Len(job.spans) = 0 THEN "IndexError"
    ELSE IF job.spans[1] = "new" /\ Len(job.spans) < 2 THEN "IndexError"
    ELSE IF job.companyName = None THEN "AttributeError"
    ELSE IF job.companyLocation = None THEN "AttributeError"
    ELSE IF job.metadata = None THEN "AttributeError"
    ELSE "none"

(* The first exception the loop body raises on a card, "none" if it        *)
(* raises none; the lookups are tested in the order the body makes them.   *)
CardError(job) ==
    IF ~job.resultContent THEN "AttributeError"            \* line 62, None.find
    ELSE IF ~job.jobTitle THEN "AttributeError"             \* line 65, None.find_all
    ELSE IF job.data_jk = None THEN "KeyError"              \* line 66
    ELSE IF Len(job.spans) = 0 THEN "IndexError"            \* line 68
    ELSE IF job.spans[1] = "new" /\ Len(job.spans) < 2
         THEN "IndexError"                                  \* line 69
    ELSE IF job.companyName = None THEN "AttributeError"    \* line 76, None.text
    ELSE IF job.companyLocation = None THEN "AttributeError" \* line 77, None.text
    ELSE "none"

(* the badge test of line 68 left out *)
JobTitleFirstSpan(job) == job.spans[1]

(* lines 68-71 *)
JobTitle(job) ==
    IF job.spans[1] = "new" THEN job.spans[2] ELSE job.spans[1]

(* line 79; a bs4 Tag is truthy even when empty, so only None gives "" *)
Salary(job) ==
    IF job.metadata # None THEN job.metadata ELSE ""

(* lines 73-80 *)
Posting(job) ==
    [ title    |-> JobTitle(job),
      link     |-> "https://indeed.com/viewjob?jk=" \o job.data_jk,
      company  |-> job.companyName,
      location |-> job.companyLocation,
      job_type |-> "Full Time",
      salary   |-> Salary(job) ]

(* An exception leaves scrape_html: the local list is lost with the frame *)
Raised(e, partial) == [ ok |-> FALSE, err |-> e, postings |-> << >> ]

RECURSIVE ScrapeLoop(_, _)
ScrapeLoop(jobs, acc) ==
    IF jobs = << >> THEN [ ok |-> TRUE, err |-> "none", postings |-> acc ]
    ELSE LET job == Head(jobs)
         IN  IF CardError(job) # "none"
             THEN Raised(CardError(job), acc)
             ELSE ScrapeLoop(Tail(jobs), Append(acc, Posting(job)))

scrape_html(html_content) == ScrapeLoop(FindAllCards(html_content), << >>)

-----------------------------------------------------------------------------
(* publish_to_discord: the embed of lines 94-107 *)

color == 5814783

Embed(posting) ==
    [ content |-> "",
      embeds  |-> << [ title       |-> posting.title,
                       description |-> "**Location**: " \o posting.location \o "\n"
                                       \o "**Company**: " \o posting.company \o "\n"
                                       \o "**Job Type**: " \o posting.job_type \o "\n"
                                       \o "**Salary**: " \o posting.salary,
                       url         |-> posting.link,
                       color       |-> color ] >> ]

-----------------------------------------------------------------------------
(* Inputs: configurations and pages *)

Targets ==
    { [ country     |-> "US",
        search_keys |-> << "help desk" >>,
        webhook     |-> "https://discord.com/api/webhooks/1" ],
      [ country     |-> "ca",
        search_keys |-> << "help desk", "it support" >>,
        webhook     |-> "https://discord.com/api/webhooks/2" ] }

Configs == SeqsUpTo(Targets, MaxTargets)

Keys == { "abc123", "def456" }

TitleSpans ==
    { << "Helpdesk Tech" >>,
      << "new", "IT Support Specialist" >>,
      << "new", "new" >>,
      << "Helpdesk Tech", "new" >> }

(* A div-rooted card with every element scrape_html reads; the job key is  *)
(* on the anchor that is the last child of the title element               *)
DivCard(spans, key, metadata) ==
    [ root            |-> "div",
      root_jk         |-> None,
      resultContent   |-> TRUE,
      metadata        |-> metadata,
      jobTitle        |-> TRUE,
      spans           |-> spans,
      data_jk         |-> key,
      companyName     |-> "Acme",
      companyLocation |-> "Remote" ]

(* An anchor-rooted card: the anchor itself carries the class and the key  *)
AnchorCard(spans, key, metadata) ==
    [ DivCard(spans, key, metadata) EXCEPT
        !.root = "a", !.root_jk = key, !.data_jk = None ]

WellFormedCards ==
    { DivCard(s, k, m) : s \in TitleSpans, k \in Keys,
                         m \in { None, "", "$40k-$50k" } }

Card1 == DivCard(<< "Helpdesk Tech" >>, "abc123", None)

Card2 ==
    [ DivCard(<< "new", "IT Support Specialist" >>, "def456", "$40k-$50k") EXCEPT
        !.companyName = "Beta Corp", !.companyLocation = "NYC" ]

MalformedCards ==
    { [ Card1 EXCEPT !.resultContent = FALSE ],
      [ Card1 EXCEPT !.jobTitle = FALSE ],
      [ Card1 EXCEPT !.data_jk = None ],
      [ Card1 EXCEPT !.spans = << >> ],
      [ Card1 EXCEPT !.spans = << "new" >> ],
      [ Card1 EXCEPT !.companyName = None ],
      [ Card1 EXCEPT !.companyLocation = None ],
      [ Card2 EXCEPT !.companyName = None ] }

AnchorCards ==
    { AnchorCard(<< "Helpdesk Tech" >>, "abc123", None),
      [ AnchorCard(<< "Helpdesk Tech" >>, "def456", None) EXCEPT
          !.companyName = None ] }

Cards == WellFormedCards \cup { Card2 } \cup MalformedCards \cup AnchorCards

(* Pages scrape_html is applied to on its own *)
Docs == SeqsUpTo(Cards, MaxCards)

(* Pages the whole run may fetch *)
PageCards == { Card1, Card2, [ Card1 EXCEPT !.companyName = None ] }

Pages == SeqsUpTo(PageCards, MaxCards)

-----------------------------------------------------------------------------
(* The run *)

(* every country published to the first country's webhook *)
WebhookOfFirst(i) == countries[1].webhook

(* main line 141: country['webhook'] *)
Webhook(i) == countries[i].webhook

GetCall(i, url, outcome) ==
    [ op |-> "GET", target |-> i, url |-> url, outcome |-> outcome ]

ScrapeCall(i, r) ==
    [ op |-> "scrape", target |-> i, ok |-> r.ok, postings |-> r.postings ]

PostCall(i, webhook, embed, outcome) ==
    [ op |-> "POST", target |-> i, webhook |-> webhook, json |-> embed,
      outcome |-> outcome ]

Init ==
    /\ countries_file \in
         { [ exists |-> FALSE, data |-> << >> ] }
           \cup { [ exists |-> TRUE, data |-> c ] : c \in Configs }
    /\ countries = << >>
    /\ pc = "main"
    /\ idx = 0
    /\ query = ""
    /\ raw_content = << >>
    /\ postings = << >>
    /\ pidx = 0
    /\ log = << >>
    /\ stdout = << >>
    /\ err = "none"
    /\ exit_status = -1

(* main lines 117-122 *)
LoadConfig ==
    /\ pc = "main"
    /\ IF countries_file.exists
       THEN /\ countries' = countries_file.data
            /\ idx' = 1
            /\ pc' = "loop"
            /\ UNCHANGED << stdout, err, exit_status >>
       ELSE /\ stdout' = Append(stdout, "No countries.yml file found")
            /\ err' = "FileNotFoundError"
            /\ exit_status' = 1
            /\ pc' = "exited"
            /\ UNCHANGED << countries, idx >>
    /\ UNCHANGED << countries_file, query, raw_content, postings, pidx, log >>

(* main lines 124-139 with get_data returning the response body *)
GetData ==
    /\ pc = "loop"
    /\ idx <= Len(countries)
    /\ LET q == Query(countries[idx].search_keys)
       IN  /\ query' = q
           /\ \E page \in Pages :
                /\ raw_content' = page
                /\ log' = Append(log, GetCall(idx, Url(q, countries[idx].country),
                                              "response"))
    /\ pc' = "scrape"
    /\ UNCHANGED << countries_file, countries, idx, postings, pidx, stdout, err,
                    exit_status >>

(* the error reported, sys.exit(1) left out and the country skipped *)
GetDataConnectionErrorSkip ==
    /\ stdout' = Append(stdout, "Could not connect: ")
    /\ idx' = idx + 1
    /\ pc' = "loop"
    /\ UNCHANGED << err, exit_status >>

(* get_data lines 34-36: requests.get raised ConnectionError *)
GetDataConnectionErrorExit ==
    /\ stdout' = Append(stdout, "Could not connect: ")
    /\ err' = "ConnectionError"
    /\ exit_status' = 1
    /\ pc' = "exited"
    /\ UNCHANGED idx

GetDataConnectionError ==
    /\ pc = "loop"
    /\ idx <= Len(countries)
    /\ LET q == Query(countries[idx].search_keys)
       IN  /\ query' = q
           /\ log' = Append(log, GetCall(idx, Url(q, countries[idx].country),
                                         "ConnectionError"))
    /\ GetDataConnectionErrorExit
    /\ UNCHANGED << countries_file, countries, raw_content, postings, pidx >>

(* get_data line 33: requests.get raised an exception line 34 does not     *)
(* catch (TooManyRedirects, ChunkedEncodingError, ...); it leaves main     *)
GetDataUncaught ==
    /\ pc = "loop"
    /\ idx <= Len(countries)
    /\ LET q == Query(countries[idx].search_keys)
       IN  /\ query' = q
           /\ log' = Append(log, GetCall(idx, Url(q, countries[idx].country),
                                         "RequestException"))
    /\ err' = "RequestException"
    /\ exit_status' = 1
    /\ pc' = "crashed"
    /\ UNCHANGED << countries_file, countries, idx, raw_content, postings, pidx,
                    stdout >>

(* main line 140 *)
ScrapeHtml ==
    /\ pc = "scrape"
    /\ LET r == scrape_html(raw_content)
       IN  /\ log' = Append(log, ScrapeCall(idx, r))
           /\ IF r.ok
              THEN /\ postings' = r.postings
                   /\ pidx' = 1
                   /\ pc' = "publish"
                   /\ UNCHANGED << err, exit_status >>
              ELSE /\ err' = r.err
                   /\ exit_status' = 1
                   /\ pc' = "crashed"
                   /\ UNCHANGED << postings, pidx >>
    /\ UNCHANGED << countries_file, countries, idx, query, raw_content, stdout >>

(* publish_to_discord lines 93-111, one iteration: requests.post returned  *)
(* a response, whose status the code does not read                         *)
PublishPost ==
    /\ pc = "publish"
    /\ pidx <= Len(postings)
    /\ \E status \in { 204, 404, 500 } :
         /\ log' = Append(log, PostCall(idx, Webhook(idx), Embed(postings[pidx]),
                                        "response"))
         /\ stdout' = Append(stdout, Embed(postings[pidx]))
    /\ pidx' = pidx + 1
    /\ UNCHANGED << countries_file, countries, pc, idx, query, raw_content,
                    postings, err, exit_status >>

(* publish_to_discord line 109: requests.post raised (connection refused,  *)
(* DNS failure, ...); nothing catches it, it leaves main                   *)
PublishPostRaises ==
    /\ pc = "publish"
    /\ pidx <= Len(postings)
    /\ log' = Append(log, PostCall(idx, Webhook(idx), Embed(postings[pidx]),
                                   "ConnectionError"))
    /\ err' = "ConnectionError"
    /\ exit_status' = 1
    /\ pc' = "crashed"
    /\ UNCHANGED << countries_file, countries, idx, query, raw_content, postings,
                    pidx, stdout >>

(* publish_to_discord returns; main goes to the next country *)
PublishReturn ==
    /\ pc = "publish"
    /\ pidx > Len(postings)
    /\ idx' = idx + 1
    /\ pc' = "loop"
    /\ UNCHANGED << countries_file, countries, query, raw_content, postings, pidx,
                    log, stdout, err, exit_status >>

(* main returns after the last country *)
MainReturn ==
    /\ pc = "loop"
    /\ idx > Len(countries)
    /\ exit_status' = 0
    /\ pc' = "done"
    /\ UNCHANGED << countries_file, countries, idx, query, raw_content, postings,
                    pidx, log, stdout, err >>

Next ==
    \/ LoadConfig
    \/ GetData
    \/ GetDataConnectionError
    \/ GetDataUncaught
    \/ ScrapeHtml
    \/ PublishPost
    \/ PublishPostRaises
    \/ PublishReturn
    \/ MainReturn

Spec == Init /\ [][Next]_vars

(* scrape_html on its own: the run stands at main line 140 for the first   *)
(* country, with any page of Docs as the response body                     *)
InitScrape ==
    /\ countries_file \in { [ exists |-> TRUE, data |-> << t >> ] : t \in Targets }
    /\ countries = countries_file.data
    /\ pc = "scrape"
    /\ idx = 1
    /\ query = Query(countries[1].search_keys)
    /\ raw_content \in Docs
    /\ postings = << >>
    /\ pidx = 0
    /\ log = << GetCall(1, Url(query, countries[1].country), "response") >>
    /\ stdout = << >>
    /\ err = "none"
    /\ exit_status = -1

NextScrape == ScrapeHtml

SpecScrape == InitScrape /\ [][NextScrape]_vars

-----------------------------------------------------------------------------
(* Properties of scrape_html, checked under SpecScrape *)

(* scrape_html has been called on raw_content; its outcome is the last     *)
(* entry of the log                                                        *)
Scraped == pc # "scrape" /\ log[Len(log)].op = "scrape"

Result == log[Len(log)]

(* The cards scrape_html iterates over *)
Jobs == SelectSeq(raw_content, LAMBDA e : e.root = "div")

(* A card with a result-content region, a title with its span(s), a job    *)
(* key, a company and a location                                           *)
WellFormed(card) ==
    /\ card.resultContent
    /\ card.jobTitle
    /\ Len(card.spans) >= 1
    /\ (card.spans[1] = "new" => Len(card.spans) >= 2)
    /\ card.data_jk # None
    /\ card.companyName # None
    /\ card.companyLocation # None

C2_TitleSkipsBadge ==
    (Scraped /\ Result.ok)
        => /\ Len(Result.postings) = Len(Jobs)
           /\ \A i \in DOMAIN Jobs :
                IF Jobs[i].spans[1] = "new"
                THEN Result.postings[i].title = Jobs[i].spans[2]
                ELSE Result.postings[i].title = Jobs[i].spans[1]

(* C2 witness: a card with the badge and a card without it were scraped *)
C2_Witness ==
    /\ Scraped /\ Result.ok
    /\ Len(Jobs) = 2
    /\ Jobs[1].spans = << "new", "IT Support Specialist" >>
    /\ Jobs[2].spans = << "Helpdesk Tech", "new" >>
    /\ Result.postings[1].title = "IT Support Specialist"

C4_SalaryOptional ==
    /\ (Scraped /\ \A i \in DOMAIN Jobs : WellFormed(Jobs[i])) => Result.ok
    /\ (Scraped /\ Result.ok)
         => /\ Len(Result.postings) = Len(Jobs)
            /\ \A i \in DOMAIN Jobs :
                 IF Jobs[i].metadata = None
                 THEN Result.postings[i].salary = ""
                 ELSE Result.postings[i].salary = Jobs[i].metadata

(* C4 witness: a card without metadata and a card with a salary text *)
C4_Witness ==
    /\ Scraped /\ Result.ok
    /\ Len(Jobs) = 2
    /\ Jobs[1].metadata = None
    /\ Jobs[2].metadata = "$40k-$50k"
    /\ Result.postings[1].salary = ""

(* An element carrying the card marker that has every part of a card, the  *)
(* job key being on the title's anchor (div-rooted) or on the root itself  *)
(* (anchor-rooted)                                                         *)
WellFormedEitherRoot(e) ==
    /\ e.resultContent
    /\ e.jobTitle
    /\ Len(e.spans) >= 1
    /\ (e.spans[1] = "new" => Len(e.spans) >= 2)
    /\ IF e.root = "a" THEN e.root_jk # None ELSE e.data_jk # None
    /\ e.companyName # None
    /\ e.companyLocation # None

(* C10: every element carrying the card marker yields a posting, whether   *)
(* its root is a div or an anchor.                                         *)
C10_CardsOfEitherRoot ==
    (Scraped /\ \A i \in DOMAIN raw_content : WellFormedEitherRoot(raw_content[i]))
        => /\ Result.ok
           /\ Len(Result.postings) = Len(raw_content)

-----------------------------------------------------------------------------
(* Properties of the run, checked under Spec *)

(* The calls the log holds for country t, in order *)
PostsOf(t) == SelectSeq(log, LAMBDA e : e.op = "POST" /\ e.target = t)

ScrapesOf(t) == SelectSeq(log, LAMBDA e : e.op = "scrape" /\ e.target = t)

Ended == pc \in { "done", "exited", "crashed" }

(* C5: a POST that fails does not end the run with an error: the publish   *)
(* loop goes on.                                                           *)
C5_FailedPostDoesNotAbort ==
    \A k \in DOMAIN log :
        (log[k].op = "POST" /\ log[k].outcome # "response")
            => (pc # "crashed" /\ exit_status # 1)

(* C6: a fetch that fails with a connection error is the last thing the    *)
(* run does: it exits with status 1, and no extraction, POST or further    *)
(* fetch follows for that country or any later one.                        *)
C6_FetchFailureEndsRun ==
    \A k \in DOMAIN log :
        (log[k].op = "GET" /\ log[k].outcome = "ConnectionError")
            => /\ k = Len(log)
               /\ pc = "exited"
               /\ exit_status = 1
               /\ ScrapesOf(log[k].target) = << >>
               /\ PostsOf(log[k].target) = << >>

(* C6 witness: the fetch of the first of two countries failed *)
C6_Witness ==
    /\ Len(countries) = 2
    /\ Len(log) = 1
    /\ log[1].op = "GET" /\ log[1].outcome = "ConnectionError" /\ log[1].target = 1
    /\ pc = "exited"

(* The payload of a posting: the four labelled lines in the order          *)
(* Location, Company, Job Type, Salary                                     *)
ExpectedPayload(p) ==
    [ content |-> "",
      embeds  |-> << [ title       |-> p.title,
                       description |-> "**Location**: " \o p.location
                                       \o "\n**Company**: " \o p.company
                                       \o "\n**Job Type**: " \o p.job_type
                                       \o "\n**Salary**: " \o p.salary,
                       url         |-> p.link,
                       color       |-> 5814783 ] >> ]

(* C7: once the run is over, every country whose page was extracted has    *)
(* had exactly one POST per posting, in the order of the postings, each    *)
(* with the payload of its posting.                                        *)
C7_OnePostPerPosting ==
    Ended =>
        \A t \in DOMAIN countries :
            (ScrapesOf(t) # << >> /\ ScrapesOf(t)[1].ok)
                => /\ Len(PostsOf(t)) = Len(ScrapesOf(t)[1].postings)
                   /\ \A n \in DOMAIN PostsOf(t) :
                        PostsOf(t)[n].json = ExpectedPayload(ScrapesOf(t)[1].postings[n])

(* Country i's pipeline is complete before position k of the log: its      *)
(* fetch, then its extraction, then one POST per posting, in order, to its *)
(* own webhook                                                             *)
CompleteBefore(i, k) ==
    \E g \in 1..(k - 1) :
        /\ log[g].op = "GET" /\ log[g].target = i /\ log[g].outcome = "response"
        /\ g + 1 < k
        /\ log[g + 1].op = "scrape" /\ log[g + 1].target = i /\ log[g + 1].ok
        /\ LET n == Len(log[g + 1].postings)
           IN  /\ g + 1 + n < k
               /\ \A m \in 1..n :
                    /\ log[g + 1 + m].op = "POST"
                    /\ log[g + 1 + m].target = i
                    /\ log[g + 1 + m].outcome = "response"
                    /\ log[g + 1 + m].webhook = countries[i].webhook
                    /\ log[g + 1 + m].json.embeds[1].url = log[g + 1].postings[m].link

(* C8: countries are processed one after the other in configuration order: *)
(* within a country the fetch precedes the extraction, which precedes the  *)
(* POSTs; a country's fetch begins only when every earlier country's       *)
(* pipeline is complete; a POST goes to the webhook of its own country.    *)
C8_CountriesInSequence ==
    \A k \in DOMAIN log :
        /\ \A j \in 1..(k - 1) : log[j].target <= log[k].target
        /\ log[k].op = "GET"
             => /\ (k = 1 => log[k].target = 1)
                /\ \A i \in 1..(log[k].target - 1) : CompleteBefore(i, k)
        /\ log[k].op = "scrape"
             => /\ k > 1
                /\ log[k - 1].op = "GET"
                /\ log[k - 1].target = log[k].target
                /\ log[k - 1].outcome = "response"
        /\ log[k].op = "POST"
             => /\ k > 1
                /\ log[k - 1].op \in { "scrape", "POST" }
                /\ log[k - 1].target = log[k].target
                /\ log[k].webhook = countries[log[k].target].webhook

(* C8 witness: two countries with different webhooks, both published *)
C8_Witness ==
    /\ pc = "done"
    /\ Len(countries) = 2
    /\ countries[1].webhook # countries[2].webhook
    /\ Len(PostsOf(1)) = 2
    /\ Len(PostsOf(2)) = 1

(* Each phrase in %22 quotes, consecutive phrases separated by " OR "      *)
(* percent-encoded, then "&" and the fixed filters                         *)
RECURSIVE JoinedWithOr(_)
JoinedWithOr(search_keys) ==
    IF Len(search_keys) = 1
    THEN "%22" \o search_keys[1] \o "%22"
    ELSE "%22" \o search_keys[1] \o "%22" \o "%20OR%20" \o JoinedWithOr(Tail(search_keys))

ExpectedQuery(search_keys) ==
    JoinedWithOr(search_keys)
        \o "&explvl=entry_level&fromage=1&jt=fulltime&limit=50"

(* C9: the query sent for a country is its phrases, each quoted, joined    *)
(* by the percent-encoded " OR ", followed by the four fixed filters.      *)
C9_QueryJoinedWithOr ==
    \A k \in DOMAIN log :
        log[k].op = "GET"
            => log[k].url = Url(ExpectedQuery(countries[log[k].target].search_keys),
                                countries[log[k].target].country)

====
